---- MODULE Spec2Model ----
(***************************************************************************)
(* Model of azext_aks_preview/azurecontainerstorage/_validators.py:        *)
(* validate_azure_container_storage_params and its three helpers.          *)
(*                                                                         *)
(* Strings are sequences of one-character strings, so that the regular     *)
(* expressions, the slicing, float() and split() of the source are         *)
(* computed character by character. An optional argument is None (<<>>)    *)
(* or Some(v) (<<v>>).                                                     *)
(***************************************************************************)
EXTENDS Integers, Sequences, FiniteSets, TLC

VARIABLES
    enable_azure_container_storage,
    disable_azure_container_storage,
    storage_pool_name,
    storage_pool_type,
    storage_pool_sku,
    storage_pool_option,
    storage_pool_size,
    nodepool_list,
    agentpool_names,
    is_extension_installed,
    pc,          \* position of the invocation inside the validator
    result,      \* Running, Returned or the exception that ended the call
    warnings,    \* messages passed to logger.warning, in order
    evaluated    \* the checks that have been evaluated, in order

args == <<enable_azure_container_storage, disable_azure_container_storage,
          storage_pool_name, storage_pool_type, storage_pool_sku,
          storage_pool_option, storage_pool_size, nodepool_list,
          agentpool_names, is_extension_installed>>

vars == <<enable_azure_container_storage, disable_azure_container_storage,
          storage_pool_name, storage_pool_type, storage_pool_sku,
          storage_pool_option, storage_pool_size, nodepool_list,
          agentpool_names, is_extension_installed,
          pc, result, warnings, evaluated>>

----------------------------------------------------------------------------
(* Optional values and small sequence helpers *)

None == <<>>

Some(v) == <<v>>

Value(o) == o[1]

Range(s) == {s[i] : i \in 1..Len(s)}

SeqsUpTo(S, n) == UNION {[1..k -> S] : k \in 0..n}

----------------------------------------------------------------------------
(* Constants imported from azurecontainerstorage._consts *)

CONST_STORAGE_POOL_TYPE_AZURE_DISK == "azureDisk"

CONST_STORAGE_POOL_TYPE_EPHEMERAL_DISK == "ephemeralDisk"

CONST_STORAGE_POOL_TYPE_ELASTIC_SAN == "elasticSan"

CONST_STORAGE_POOL_SKU_PREMIUM_LRS == "Premium_LRS"

CONST_STORAGE_POOL_SKU_PREMIUM_ZRS == "Premium_ZRS"

CONST_STORAGE_POOL_OPTION_SSD == "SSD"

elastic_san_supported_skus ==
    <<CONST_STORAGE_POOL_SKU_PREMIUM_LRS, CONST_STORAGE_POOL_SKU_PREMIUM_ZRS>>

----------------------------------------------------------------------------
(* Character classes of the regular expressions *)

LowerAlpha == {"a", "b", "c", "d", "e", "f", "g", "h", "i", "j", "k", "l", "m",
               "n", "o", "p", "q", "r", "s", "t", "u", "v", "w", "x", "y", "z"}

Digit == {"0", "1", "2", "3", "4", "5", "6", "7", "8", "9"}

LowerAlnum == LowerAlpha \cup Digit

----------------------------------------------------------------------------
(* A regular expression is a tree; Ends(r, s, P) is the set of positions   *)
(* at which a match of r can end when it starts at a position of P.        *)
(* Positions are 1..Len(s)+1, the index of the next character to read.     *)

Class(chars) == [op |-> "class", chars |-> chars]

Cat(parts) == [op |-> "cat", parts |-> parts]

Opt(r) == [op |-> "opt", sub |-> r]

Star(r) == [op |-> "star", sub |-> r]

Plus(r) == Cat(<<r, Star(r)>>)

Bol == [op |-> "bol"]

Eol == [op |-> "eol"]

RECURSIVE Ends(_, _, _)
Ends(r, s, P) ==
    CASE r.op = "class" ->
            {p + 1 : p \in {q \in P : q <= Len(s) /\ s[q] \in r.chars}}
      [] r.op = "cat" ->
            IF r.parts = <<>> THEN P
            ELSE Ends(Cat(Tail(r.parts)), s, Ends(Head(r.parts), s, P))
      [] r.op = "opt" -> P \cup Ends(r.sub, s, P)
      [] r.op = "star" ->
            LET Q == Ends(r.sub, s, P)
            IN  IF Q \subseteq P THEN P ELSE Ends(r, s, P \cup Q)
      [] r.op = "bol" -> P \cap {1}
         \* '$' without re.MULTILINE: at the end of the string, or just
         \* before a newline that is the last character
      [] r.op = "eol" ->
            {p \in P : p = Len(s) + 1 \/ (p = Len(s) /\ s[p] = "\n")}

\* re.match: some match starting at the beginning of the string
re_match(pattern, s) == Ends(pattern, s, {1}) # {}

\* re.fullmatch: some match spanning the whole string
re_fullmatch(pattern, s) == (Len(s) + 1) \in Ends(pattern, s, {1})

----------------------------------------------------------------------------
(* Outcomes of a call *)

Running == [kind |-> "running", msg |-> "", arg |-> <<>>, listed |-> <<>>]

Returned == [kind |-> "return", msg |-> "", arg |-> <<>>, listed |-> <<>>]

\* the value of a check that raises nothing
NoError == [kind |-> "none", msg |-> "", arg |-> <<>>, listed |-> <<>>]

Raise(kind, msg) == [kind |-> kind, msg |-> msg, arg |-> <<>>, listed |-> <<>>]

RaiseNotFound(msg, nodepool, listed) ==
    [kind |-> "InvalidArgumentValueError", msg |-> msg,
     arg |-> nodepool, listed |-> listed]

\* "Conflicting flags. Cannot define <flag> value when
\* --disable-azure-container-storage is set."
RaiseConflict(flag) ==
    [kind |-> "MutuallyExclusiveArgumentError",
     msg |-> "Cannot define value when disable is set",
     arg |-> <<flag>>, listed |-> <<>>]

EPHEMERAL_SIZE_WARNING == "storage-pool-size will be ignored"

----------------------------------------------------------------------------
(* Python builtins used by the validators *)

\* s[:-2]
DropLast2(s) == SubSeq(s, 1, Len(s) - 2)

\* s[-2:]
Last2(s) == IF Len(s) <= 2 THEN s ELSE SubSeq(s, Len(s) - 1, Len(s))

DigitValue(c) ==
    CASE c = "0" -> 0 [] c = "1" -> 1 [] c = "2" -> 2 [] c = "3" -> 3
      [] c = "4" -> 4 [] c = "5" -> 5 [] c = "6" -> 6 [] c = "7" -> 7
      [] c = "8" -> 8 [] c = "9" -> 9

RECURSIVE DigitsToNat(_)
DigitsToNat(s) ==
    IF s = <<>> THEN 0
    ELSE 10 * DigitsToNat(SubSeq(s, 1, Len(s) - 1)) + DigitValue(s[Len(s)])

RECURSIVE Pow10(_)
Pow10(k) == IF k = 0 THEN 1 ELSE 10 * Pow10(k - 1)

FLOAT_LITERAL ==
    Cat(<<Plus(Class(Digit)), Opt(Cat(<<Class({"."}), Star(Class(Digit))>>))>>)

\* float(s) for the strings that reach it: a decimal literal gives the exact
\* value num / 10^scale (every literal within the bounds of this model is far
\* shorter than the 15 significant digits a double holds exactly against the
\* thresholds 1 and 1024); any other text raises ValueError.
float(s) ==
    IF ~re_fullmatch(FLOAT_LITERAL, s) THEN [ok |-> FALSE, num |-> 0, scale |-> 0]
    ELSE LET dots == {i \in 1..Len(s) : s[i] = "."}
             digits == SelectSeq(s, LAMBDA c : c # ".")
         IN  [ok |-> TRUE, num |-> DigitsToNat(digits),
              scale |-> IF dots = {} THEN 0
                        ELSE Len(s) - (CHOOSE i \in dots : TRUE)]

\* q < n for a float q and an integer n
FloatLess(q, n) == q.num < n * Pow10(q.scale)

\* s.split(sep) for a one-character separator
RECURSIVE split(_, _)
split(s, sep) ==
    LET at == {i \in 1..Len(s) : s[i] = sep}
    IN  IF at = {} THEN <<s>>
        ELSE LET i == CHOOSE j \in at : \A k \in at : j <= k
             IN  <<SubSeq(s, 1, i - 1)>> \o split(SubSeq(s, i + 1, Len(s)), sep)

\* sep.join(items)
RECURSIVE join(_, _)
join(sep, items) ==
    IF items = <<>> THEN <<>>
    ELSE IF Len(items) = 1 THEN items[1]
    ELSE items[1] \o sep \o join(sep, Tail(items))

----------------------------------------------------------------------------
(* The three patterns of the source *)

\* [a-z0-9]([-a-z0-9]*[a-z0-9])?
DnsLabel ==
    <<Class(LowerAlnum),
      Opt(Cat(<<Star(Class(LowerAlnum \cup {"-"})), Class(LowerAlnum)>>))>>

\* Mutant: [a-z0-9]([-a-z0-9.]*[a-z0-9])?, dots allowed anywhere inside
POOL_NAME_PATTERN_dots_anywhere ==
    Cat(<<Class(LowerAlnum),
          Opt(Cat(<<Star(Class(LowerAlnum \cup {"-", "."})), Class(LowerAlnum)>>))>>)

\* [a-z0-9]([-a-z0-9]*[a-z0-9])?(\.[a-z0-9]([-a-z0-9]*[a-z0-9])?)*
POOL_NAME_PATTERN ==
    Cat(DnsLabel \o <<Star(Cat(<<Class({"."})>> \o DnsLabel))>>)

\* ^\d+(\.\d+)?[GT]i$
POOL_SIZE_PATTERN ==
    Cat(<<Bol, Plus(Class(Digit)),
          Opt(Cat(<<Class({"."}), Plus(Class(Digit))>>)),
          Class({"G", "T"}), Class({"i"}), Eol>>)

\* ^[a-z][a-z0-9]*(?:,[a-z][a-z0-9]*)*$
NODEPOOL_PATTERN ==
    Cat(<<Bol, Class(LowerAlpha), Star(Class(LowerAlnum)),
          Star(Cat(<<Class({","}), Class(LowerAlpha), Star(Class(LowerAlnum))>>)),
          Eol>>)

----------------------------------------------------------------------------
(* _validate_disable_azure_container_storage_params *)

\* Mutant: the option conflict tested before the size conflict (the order of
\* the parameter list instead of the order of the statements).
_validate_disable_option_before_size(pool_name, pool_sku, pool_option, pool_size, nodepools, installed) ==
    IF ~installed
        THEN Raise("InvalidArgumentValueError", "disable: not enabled on the cluster")
    ELSE IF pool_name # None THEN RaiseConflict("--storage-pool-name")
    ELSE IF pool_sku # None THEN RaiseConflict("--storage-pool-sku")
    ELSE IF pool_option # None THEN RaiseConflict("--storage-pool-option")
    ELSE IF pool_size # None THEN RaiseConflict("--storage-pool-size")
    ELSE IF nodepools # None THEN RaiseConflict("--azure-container-storage-nodepools")
    ELSE NoError

_validate_disable_azure_container_storage_params(pool_name, pool_sku, pool_option, pool_size, nodepools, installed) ==
    IF ~installed
        THEN Raise("InvalidArgumentValueError", "disable: not enabled on the cluster")
    ELSE IF pool_name # None THEN RaiseConflict("--storage-pool-name")
    ELSE IF pool_sku # None THEN RaiseConflict("--storage-pool-sku")
    ELSE IF pool_size # None THEN RaiseConflict("--storage-pool-size")
    ELSE IF pool_option # None THEN RaiseConflict("--storage-pool-option")
    ELSE IF nodepools # None THEN RaiseConflict("--azure-container-storage-nodepools")
    ELSE NoError

----------------------------------------------------------------------------
(* The checks of _validate_enable_azure_container_storage_params, in the    *)
(* order of the source; each gives the exception it raises, or NoError.     *)

\* Mutant: the install-state test of the disable path used on the enable path.
enable_installed_check_negated(installed) ==
    IF ~installed
        THEN Raise("InvalidArgumentValueError", "enable: already enabled on the cluster")
        ELSE NoError

enable_installed_check(installed) ==
    IF installed
        THEN Raise("InvalidArgumentValueError", "enable: already enabled on the cluster")
        ELSE NoError

enable_pool_name_check(pool_name) ==
    IF pool_name # None /\ ~re_fullmatch(POOL_NAME_PATTERN, Value(pool_name))
        THEN Raise("InvalidArgumentValueError", "Invalid --storage-pool-name value")
        ELSE NoError

enable_pool_sku_check(pool_type, pool_sku) ==
    IF pool_sku # None
    THEN IF pool_type = CONST_STORAGE_POOL_TYPE_EPHEMERAL_DISK
            THEN Raise("ArgumentUsageError", "Cannot set --storage-pool-sku for ephemeralDisk")
         ELSE IF pool_type = CONST_STORAGE_POOL_TYPE_ELASTIC_SAN
                 /\ Value(pool_sku) \notin Range(elastic_san_supported_skus)
            THEN [kind |-> "ArgumentUsageError",
                  msg |-> "Invalid --storage-pool-sku value for elasticSan",
                  arg |-> <<>>,
                  listed |-> elastic_san_supported_skus]
         ELSE NoError
    ELSE NoError

\* Mutant: the SSD test left out.
enable_pool_option_check_without_ssd(pool_type, pool_option) ==
    IF pool_type # CONST_STORAGE_POOL_TYPE_EPHEMERAL_DISK /\ pool_option # None
        THEN Raise("ArgumentUsageError",
                   "Cannot set --storage-pool-option when not ephemeralDisk")
    ELSE NoError

enable_pool_option_check(pool_type, pool_option) ==
    IF pool_type # CONST_STORAGE_POOL_TYPE_EPHEMERAL_DISK /\ pool_option # None
        THEN Raise("ArgumentUsageError",
                   "Cannot set --storage-pool-option when not ephemeralDisk")
    ELSE IF pool_type = CONST_STORAGE_POOL_TYPE_EPHEMERAL_DISK
            /\ pool_option = Some(CONST_STORAGE_POOL_OPTION_SSD)
        THEN Raise("ArgumentUsageError", "Temp storage (SSD) currently not supported")
    ELSE NoError

enable_pool_size_check(pool_type, pool_size) ==
    IF pool_size = None THEN NoError
    ELSE IF ~re_match(POOL_SIZE_PATTERN, Value(pool_size))
        THEN Raise("ArgumentUsageError", "size followed by Gi or Ti")
    ELSE IF pool_type = CONST_STORAGE_POOL_TYPE_ELASTIC_SAN
        THEN LET pool_size_qty == float(DropLast2(Value(pool_size)))
                 pool_size_unit == Last2(Value(pool_size))
             IN  IF ~pool_size_qty.ok
                    THEN Raise("ValueError", "could not convert string to float")
                 ELSE IF \/ (pool_size_unit = <<"G", "i">> /\ FloatLess(pool_size_qty, 1024))
                         \/ (pool_size_unit = <<"T", "i">> /\ FloatLess(pool_size_qty, 1))
                    THEN Raise("ArgumentUsageError", "must be at least 1Ti for elasticSan")
                 ELSE NoError
    ELSE NoError

\* Mutant: 'else' in place of 'elif type == ephemeralDisk'.
enable_pool_size_warns_any_other_type(pool_type, pool_size) ==
    /\ pool_size # None
    /\ re_match(POOL_SIZE_PATTERN, Value(pool_size))
    /\ pool_type # CONST_STORAGE_POOL_TYPE_ELASTIC_SAN

\* the logger.warning call of the size block
enable_pool_size_warns(pool_type, pool_size) ==
    /\ pool_size # None
    /\ re_match(POOL_SIZE_PATTERN, Value(pool_size))
    /\ pool_type # CONST_STORAGE_POOL_TYPE_ELASTIC_SAN
    /\ pool_type = CONST_STORAGE_POOL_TYPE_EPHEMERAL_DISK

----------------------------------------------------------------------------
(* _validate_nodepool_names *)

nodepool_pattern_check(nodepool_names) ==
    IF nodepool_names = None
        \* re.fullmatch(pattern, None)
        THEN Raise("TypeError", "expected string or bytes-like object")
    ELSE IF ~re_fullmatch(NODEPOOL_PATTERN, Value(nodepool_names))
        THEN Raise("InvalidArgumentValueError",
                   "Invalid --azure-container-storage-nodepools value")
    ELSE NoError

RECURSIVE nodepool_loop(_, _)
nodepool_loop(nodepools, agentpool_details) ==
    IF nodepools = <<>> THEN NoError
    ELSE LET nodepool == Head(nodepools)
         IN  IF nodepool \notin Range(agentpool_details)
             THEN IF Len(agentpool_details) > 1
                     THEN RaiseNotFound("Nodepools available in the cluster are",
                                        nodepool,
                                        join(<<",", " ">>, agentpool_details))
                  ELSE IF Len(agentpool_details) = 0
                     \* agentpool_details[0] of an empty list
                     THEN Raise("IndexError", "list index out of range")
                  ELSE RaiseNotFound("Nodepool available in the cluster is",
                                     nodepool, agentpool_details[1])
             ELSE nodepool_loop(Tail(nodepools), agentpool_details)

nodepool_membership_check(nodepool_names, agentpool_details) ==
    nodepool_loop(split(Value(nodepool_names), ","), agentpool_details)

----------------------------------------------------------------------------
(* Argument sets the calls are drawn from *)

MaxNameLen == 4

MaxNodepoolLen == 3

MaxAgentPools == 2

MaxFracLen == 1

Optional(S) == {None} \cup {Some(v) : v \in S}

PoolTypes == {CONST_STORAGE_POOL_TYPE_AZURE_DISK,
              CONST_STORAGE_POOL_TYPE_EPHEMERAL_DISK,
              CONST_STORAGE_POOL_TYPE_ELASTIC_SAN}

PoolSkus == Optional({CONST_STORAGE_POOL_SKU_PREMIUM_LRS,
                      CONST_STORAGE_POOL_SKU_PREMIUM_ZRS,
                      "Standard_LRS"})

PoolOptions == Optional({"NVMe", CONST_STORAGE_POOL_OPTION_SSD})

NameAlphabet == {"a", "0", "-", ".", "B"}

PoolNames == Optional(SeqsUpTo(NameAlphabet, MaxNameLen))

\* integer parts around the 1 and 1024 thresholds, or none at all
SizeIntParts == {<<>>, <<"0">>, <<"1">>, <<"5", "0", "0">>,
                 <<"1", "0", "2", "3">>, <<"1", "0", "2", "4">>}

SizeFracParts ==
    {<<>>} \cup {<<".">> \o f : f \in SeqsUpTo({"0", "5"}, MaxFracLen)}

SizeUnits == {<<>>, <<"G", "i">>, <<"T", "i">>, <<"M", "i">>}

SizeTails == {<<>>, <<"\n">>, <<"x">>}

PoolSizes ==
    Optional({i \o f \o u \o t : i \in SizeIntParts, f \in SizeFracParts,
                                 u \in SizeUnits, t \in SizeTails})

NodepoolAlphabet == {"a", "b", "1", ",", "A"}

NodepoolLists == Optional(SeqsUpTo(NodepoolAlphabet, MaxNodepoolLen))

AgentPools == SeqsUpTo({<<"a">>, <<"b">>}, MaxAgentPools)

\* every combination of a few values of each argument
BaseCalls ==
    [enable : BOOLEAN, disable : BOOLEAN, installed : BOOLEAN,
     name : {None, Some(<<"a">>), Some(<<"-">>)},
     type : PoolTypes, sku : PoolSkus, option : PoolOptions,
     size : {None, Some(<<"1", "G", "i">>), Some(<<"2", "T", "i">>),
             Some(<<"1", "T", "i", "\n">>), Some(<<"x">>)},
     nodepools : {None, Some(<<"a">>), Some(<<"a", ",", "b">>), Some(<<"A">>)},
     agentpools : {<<>>, <<<<"a">>>>, <<<<"a">>, <<"b">>>>}]

\* every pool name, on the enable path
NameCalls ==
    [enable : {TRUE}, disable : {FALSE}, installed : {FALSE},
     name : PoolNames,
     type : PoolTypes, sku : {None}, option : {None}, size : {None},
     nodepools : {Some(<<"a">>)}, agentpools : {<<<<"a">>>>}]

\* every pool size, on the enable path
SizeCalls ==
    [enable : {TRUE}, disable : {FALSE}, installed : {FALSE},
     name : {None},
     type : PoolTypes, sku : {None}, option : {None}, size : PoolSizes,
     nodepools : {Some(<<"a">>), Some(<<"A">>)}, agentpools : {<<<<"a">>>>}]

\* every node pool list against every collection of agent pools
NodepoolCalls ==
    [enable : {TRUE}, disable : {FALSE}, installed : {FALSE},
     name : {None},
     type : {CONST_STORAGE_POOL_TYPE_AZURE_DISK},
     sku : {None}, option : {None}, size : {None},
     nodepools : NodepoolLists, agentpools : AgentPools]

Calls == BaseCalls \cup NameCalls \cup SizeCalls \cup NodepoolCalls

----------------------------------------------------------------------------
(* The state machine: one call of validate_azure_container_storage_params   *)

Init ==
    \E c \in Calls :
        /\ enable_azure_container_storage = c.enable
        /\ disable_azure_container_storage = c.disable
        /\ storage_pool_name = c.name
        /\ storage_pool_type = c.type
        /\ storage_pool_sku = c.sku
        /\ storage_pool_option = c.option
        /\ storage_pool_size = c.size
        /\ nodepool_list = c.nodepools
        /\ agentpool_names = c.agentpools
        /\ is_extension_installed = c.installed
        /\ pc = "start"
        /\ result = Running
        /\ warnings = <<>>
        /\ evaluated = <<>>

\* Mutant: an error is recorded but the following checks still run.
StepKeepGoing(check, e, next) ==
    /\ evaluated' = Append(evaluated, check)
    /\ pc' = next
    /\ result' = IF e # NoError THEN e
                 ELSE IF next = "done" /\ result = Running THEN Returned
                 ELSE result

\* A check that raises ends the call with its exception; one that does not
\* lets the call go on to the next statement (or return, after the last).
Step(check, e, next) ==
    /\ evaluated' = Append(evaluated, check)
    /\ IF e # NoError
          THEN pc' = "done" /\ result' = e
          ELSE pc' = next /\ result' = IF next = "done" THEN Returned ELSE result

\* Mutant: the dispatch on the disable flag placed before the conflict check.
ValidateDisableFirst ==
    /\ pc = "start"
    /\ IF disable_azure_container_storage
          THEN pc' = "disable" /\ result' = result
       ELSE IF enable_azure_container_storage
          THEN pc' = "installed" /\ result' = result
       ELSE pc' = "done" /\ result' = Returned
    /\ UNCHANGED <<args, warnings, evaluated>>

\* validate_azure_container_storage_params: the conflict check and the dispatch
Validate ==
    /\ pc = "start"
    /\ IF enable_azure_container_storage /\ disable_azure_container_storage
          THEN /\ pc' = "done"
               /\ result' = Raise("MutuallyExclusiveArgumentError",
                                  "Cannot set enable and disable together")
       ELSE IF disable_azure_container_storage
          THEN pc' = "disable" /\ result' = result
       ELSE IF enable_azure_container_storage
          THEN pc' = "installed" /\ result' = result
       ELSE pc' = "done" /\ result' = Returned
    /\ UNCHANGED <<args, warnings, evaluated>>

ValidateDisable ==
    /\ pc = "disable"
    /\ Step("disable",
            _validate_disable_azure_container_storage_params(
                storage_pool_name, storage_pool_sku, storage_pool_option,
                storage_pool_size, nodepool_list, is_extension_installed),
            "done")
    /\ UNCHANGED <<args, warnings>>

EnableInstalled ==
    /\ pc = "installed"
    /\ Step("installed", enable_installed_check(is_extension_installed), "pool_name")
    /\ UNCHANGED <<args, warnings>>

EnablePoolName ==
    /\ pc = "pool_name"
    /\ Step("pool_name", enable_pool_name_check(storage_pool_name), "sku")
    /\ UNCHANGED <<args, warnings>>

EnablePoolSku ==
    /\ pc = "sku"
    /\ Step("sku", enable_pool_sku_check(storage_pool_type, storage_pool_sku), "option")
    /\ UNCHANGED <<args, warnings>>

EnablePoolOption ==
    /\ pc = "option"
    /\ Step("option",
            enable_pool_option_check(storage_pool_type, storage_pool_option), "size")
    /\ UNCHANGED <<args, warnings>>

EnablePoolSize ==
    /\ pc = "size"
    /\ Step("size", enable_pool_size_check(storage_pool_type, storage_pool_size),
            "nodepool_pattern")
    /\ warnings' = IF enable_pool_size_warns(storage_pool_type, storage_pool_size)
                      THEN Append(warnings, EPHEMERAL_SIZE_WARNING)
                      ELSE warnings
    /\ UNCHANGED args

NodepoolPattern ==
    /\ pc = "nodepool_pattern"
    /\ Step("nodepool_pattern", nodepool_pattern_check(nodepool_list),
            "nodepool_membership")
    /\ UNCHANGED <<args, warnings>>

NodepoolMembership ==
    /\ pc = "nodepool_membership"
    /\ Step("nodepool_membership",
            nodepool_membership_check(nodepool_list, agentpool_names), "done")
    /\ UNCHANGED <<args, warnings>>

Next ==
    \/ Validate
    \/ ValidateDisable
    \/ EnableInstalled
    \/ EnablePoolName
    \/ EnablePoolSku
    \/ EnablePoolOption
    \/ EnablePoolSize
    \/ NodepoolPattern
    \/ NodepoolMembership

Spec == Init /\ [][Next]_vars

TypeOK ==
    /\ pc \in {"start", "disable", "installed", "pool_name", "sku", "option",
               "size", "nodepool_pattern", "nodepool_membership", "done"}
    /\ (pc = "done") = (result # Running)
    /\ Len(warnings) <= 1

----------------------------------------------------------------------------
(* Vocabulary of the properties *)

Done == pc = "done"

EnablePath == enable_azure_container_storage /\ ~disable_azure_container_storage

DisablePath == disable_azure_container_storage /\ ~enable_azure_container_storage

ErrorTaxonomy == {"MutuallyExclusiveArgumentError", "InvalidArgumentValueError",
                  "ArgumentUsageError"}

Evaluated(check) == check \in Range(evaluated)

\* the call ended with an exception, raised by the given check
RaisedBy(check) ==
    /\ Done
    /\ result # Returned
    /\ evaluated # <<>>
    /\ evaluated[Len(evaluated)] = check

----------------------------------------------------------------------------
\* C1: every call either returns normally or raises one error whose kind is
\* MutuallyExclusive, InvalidValue or ArgumentUsage; it never ends with any
\* other kind of failure.
C1_OnlyTaxonomyErrors ==
    Done => result.kind \in ErrorTaxonomy \cup {"return"}

\* C2: when both the enable flag and the disable flag are set the call raises
\* MutuallyExclusive whatever the other arguments are, and no disable-path,
\* enable-path or node-pool check is run.
C2_ConflictIsMutuallyExclusive ==
    (enable_azure_container_storage /\ disable_azure_container_storage) =>
        /\ pc \in {"start", "done"}
        /\ evaluated = <<>>
        /\ warnings = <<>>
        /\ Done => /\ result.kind = "MutuallyExclusiveArgumentError"
                   /\ result.msg = "Cannot set enable and disable together"

C2_Witness ==
    /\ Done
    /\ enable_azure_container_storage /\ disable_azure_container_storage
    /\ ~is_extension_installed
    /\ storage_pool_name # None
    /\ nodepool_list = None
    /\ result.kind = "MutuallyExclusiveArgumentError"

\* C3: on the disable path the result is InvalidValue when the extension is
\* not installed; otherwise MutuallyExclusive naming the first non-null of
\* name, sku, size, option, node pool list (in this order); otherwise a
\* normal return.
DisableFieldOrder ==
    <<[flag |-> "--storage-pool-name", set |-> storage_pool_name # None],
      [flag |-> "--storage-pool-sku", set |-> storage_pool_sku # None],
      [flag |-> "--storage-pool-size", set |-> storage_pool_size # None],
      [flag |-> "--storage-pool-option", set |-> storage_pool_option # None],
      [flag |-> "--azure-container-storage-nodepools", set |-> nodepool_list # None]>>

C3_DisablePath ==
    (DisablePath /\ Done) =>
        LET supplied == {i \in 1..Len(DisableFieldOrder) : DisableFieldOrder[i].set}
        IN  /\ warnings = <<>>
            /\ IF ~is_extension_installed
                  THEN result.kind = "InvalidArgumentValueError"
               ELSE IF supplied # {}
                  THEN LET first == CHOOSE i \in supplied : \A j \in supplied : i <= j
                       IN  /\ result.kind = "MutuallyExclusiveArgumentError"
                           /\ result.arg = <<DisableFieldOrder[first].flag>>
               ELSE result = Returned

C3_Witness ==
    /\ DisablePath /\ Done
    /\ is_extension_installed
    /\ storage_pool_name = None /\ storage_pool_sku = None
    /\ storage_pool_size # None /\ storage_pool_option # None
    /\ result.arg = <<"--storage-pool-size">>

\* C4: on the enable path, when the extension is already installed the result
\* is InvalidValue ('already enabled') whatever the other arguments are.
C4_EnableWhenInstalled ==
    (EnablePath /\ is_extension_installed /\ Done) =>
        /\ result = Raise("InvalidArgumentValueError",
                          "enable: already enabled on the cluster")
        /\ evaluated = <<"installed">>
        /\ warnings = <<>>

C4_Witness ==
    /\ EnablePath /\ is_extension_installed /\ Done
    /\ nodepool_list = None
    /\ storage_pool_name = Some(<<"-">>)
    /\ storage_pool_size = Some(<<"x">>)
    /\ result.kind = "InvalidArgumentValueError"

\* C5: on the enable path a normal return means every name of the node pool
\* list is an existing agent pool; when a well-formed list has a name that is
\* not, the result is InvalidValue naming the first such name, with the
\* singular message listing the one existing pool when not more than one
\* agent pool exists and the plural message listing all the comma-joined
\* pools when more than one exists.
C5_NodepoolMembership ==
    (EnablePath /\ Done /\ Evaluated("nodepool_membership")) =>
        LET names == split(Value(nodepool_list), ",")
            missing == {i \in 1..Len(names) : names[i] \notin Range(agentpool_names)}
        IN  IF missing = {} THEN result = Returned
            ELSE LET first == CHOOSE i \in missing : \A j \in missing : i <= j
                 IN  /\ result.kind = "InvalidArgumentValueError"
                     /\ result.arg = names[first]
                     /\ IF Len(agentpool_names) > 1
                           THEN /\ result.msg = "Nodepools available in the cluster are"
                                /\ result.listed = join(<<",", " ">>, agentpool_names)
                           ELSE /\ result.msg = "Nodepool available in the cluster is"
                                /\ result.listed = agentpool_names[1]

\* C6: on the enable path with type elasticSan, a supplied size that matches
\* the size format is rejected with ArgumentUsage exactly when it is below
\* 1 TiB (unit Gi and quantity < 1024, or unit Ti and quantity < 1); with
\* type azureDisk every size that matches the format is accepted.
SizeQuantity(s) == float(SelectSeq(s, LAMBDA c : c \in Digit \cup {"."}))

SizeUnit(s) == SelectSeq(s, LAMBDA c : c \in {"G", "T", "i"})

BelowOneTiB(s) ==
    \/ SizeUnit(s) = <<"G", "i">> /\ FloatLess(SizeQuantity(s), 1024)
    \/ SizeUnit(s) = <<"T", "i">> /\ FloatLess(SizeQuantity(s), 1)

C6_ElasticSanMinimum ==
    (/\ EnablePath
     /\ Evaluated("size")
     /\ storage_pool_size # None
     /\ re_match(POOL_SIZE_PATTERN, Value(storage_pool_size))) =>
        CASE storage_pool_type = CONST_STORAGE_POOL_TYPE_ELASTIC_SAN ->
                IF BelowOneTiB(Value(storage_pool_size))
                   THEN RaisedBy("size") /\ result.kind = "ArgumentUsageError"
                   ELSE ~RaisedBy("size")
          [] storage_pool_type = CONST_STORAGE_POOL_TYPE_AZURE_DISK ->
                ~RaisedBy("size")
          [] OTHER -> TRUE

\* C7 (as claimed): a supplied pool name passes the name check exactly when
\* every character is a lowercase letter, a digit, '-' or '.' and its first
\* and last characters are alphanumeric; every other name yields InvalidValue.
ClaimedNameOK(n) ==
    /\ n # <<>>
    /\ Range(n) \subseteq LowerAlnum \cup {"-", "."}
    /\ n[1] \in LowerAlnum
    /\ n[Len(n)] \in LowerAlnum

NameChecked ==
    EnablePath /\ Evaluated("pool_name") /\ storage_pool_name # None

NameRejected ==
    RaisedBy("pool_name") /\ result.kind = "InvalidArgumentValueError"

C7_Original ==
    NameChecked => (NameRejected <=> ~ClaimedNameOK(Value(storage_pool_name)))

\* C7 (amended): a supplied pool name passes the name check exactly when
\* each of its dot-separated segments is non-empty, consists of lowercase
\* letters, digits and '-', and begins and ends with an alphanumeric
\* character; every other name yields InvalidValue.
SegmentOK(seg) ==
    /\ seg # <<>>
    /\ Range(seg) \subseteq LowerAlnum \cup {"-"}
    /\ seg[1] \in LowerAlnum
    /\ seg[Len(seg)] \in LowerAlnum

SegmentsOK(n) == \A seg \in Range(split(n, ".")) : SegmentOK(seg)

C7_NameBySegments ==
    NameChecked => (NameRejected <=> ~SegmentsOK(Value(storage_pool_name)))

C7_Witness ==
    /\ NameChecked
    /\ ~RaisedBy("pool_name")
    /\ "." \in Range(Value(storage_pool_name))

\* C8: once the option check is reached, option SSD yields ArgumentUsage
\* whatever the type, any non-null option with a type other than
\* ephemeralDisk yields ArgumentUsage, and an option other than SSD with type
\* ephemeralDisk, or a null option, causes no option error.
C8_OptionRules ==
    (EnablePath /\ Evaluated("option")) =>
        IF \/ storage_pool_option = Some(CONST_STORAGE_POOL_OPTION_SSD)
           \/ /\ storage_pool_option # None
              /\ storage_pool_type # CONST_STORAGE_POOL_TYPE_EPHEMERAL_DISK
           THEN RaisedBy("option") /\ result.kind = "ArgumentUsageError"
           ELSE ~RaisedBy("option")

C8_Witness ==
    /\ EnablePath /\ Evaluated("option")
    /\ storage_pool_option = Some(CONST_STORAGE_POOL_OPTION_SSD)
    /\ storage_pool_type = CONST_STORAGE_POOL_TYPE_EPHEMERAL_DISK
    /\ RaisedBy("option")

\* C9 (as claimed): a warning is emitted exactly when the enable path reaches
\* the size check with type ephemeralDisk and a size that matches the format,
\* the size then causes no error, and a call that ends in an error has
\* emitted no warning.
WarningCase ==
    /\ EnablePath
    /\ Evaluated("size")
    /\ storage_pool_type = CONST_STORAGE_POOL_TYPE_EPHEMERAL_DISK
    /\ storage_pool_size # None
    /\ re_match(POOL_SIZE_PATTERN, Value(storage_pool_size))

EndedInError == Done /\ result # Returned

C9_Original ==
    /\ (warnings # <<>>) <=> WarningCase
    /\ warnings \in {<<>>, <<EPHEMERAL_SIZE_WARNING>>}
    /\ WarningCase => ~RaisedBy("size")
    /\ EndedInError => warnings = <<>>

\* C9 (amended): a warning is emitted exactly when the enable path reaches
\* the size check with type ephemeralDisk and a size that matches the format,
\* and the size then causes no error; a call that ends in an error has
\* emitted a warning only when that error comes from the node pool checks
\* that follow the size check.
C9_WarningOnlyForEphemeralSize ==
    /\ (warnings # <<>>) <=> WarningCase
    /\ warnings \in {<<>>, <<EPHEMERAL_SIZE_WARNING>>}
    /\ WarningCase => ~RaisedBy("size")
    /\ (EndedInError /\ warnings # <<>>) =>
           (RaisedBy("nodepool_pattern") \/ RaisedBy("nodepool_membership"))

C9_Witness ==
    /\ WarningCase
    /\ warnings = <<EPHEMERAL_SIZE_WARNING>>
    /\ RaisedBy("nodepool_pattern")
    /\ result.kind = "InvalidArgumentValueError"

\* C10: on the enable path the checks run in the order install-state, pool
\* name, sku, option, size, node pool list format, node pool membership; the
\* error raised is that of the first failing check in this order, and no
\* check after the first failure is evaluated.
EnableOrder == <<"installed", "pool_name", "sku", "option", "size",
                 "nodepool_pattern", "nodepool_membership">>

Outcome(check) ==
    CASE check = "installed" -> enable_installed_check(is_extension_installed)
      [] check = "pool_name" -> enable_pool_name_check(storage_pool_name)
      [] check = "sku" -> enable_pool_sku_check(storage_pool_type, storage_pool_sku)
      [] check = "option" ->
            enable_pool_option_check(storage_pool_type, storage_pool_option)
      [] check = "size" -> enable_pool_size_check(storage_pool_type, storage_pool_size)
      [] check = "nodepool_pattern" -> nodepool_pattern_check(nodepool_list)
      [] check = "nodepool_membership" ->
            nodepool_membership_check(nodepool_list, agentpool_names)

\* index of the first check that fails, 0 when none does
RECURSIVE FirstFailingFrom(_)
FirstFailingFrom(i) ==
    IF i > Len(EnableOrder) THEN 0
    ELSE IF Outcome(EnableOrder[i]) # NoError THEN i
    ELSE FirstFailingFrom(i + 1)

C10_FirstFailingCheckWins ==
    EnablePath =>
        LET k == FirstFailingFrom(1)
            last == IF k = 0 THEN Len(EnableOrder) ELSE k
        IN  /\ Len(evaluated) <= last
            /\ evaluated = SubSeq(EnableOrder, 1, Len(evaluated))
            /\ Done => /\ Len(evaluated) = last
                       /\ result = IF k = 0 THEN Returned
                                   ELSE Outcome(EnableOrder[k])

C10_Witness ==
    /\ EnablePath /\ Done
    /\ enable_pool_sku_check(storage_pool_type, storage_pool_sku) # NoError
    /\ enable_pool_option_check(storage_pool_type, storage_pool_option) # NoError
    /\ nodepool_list = None
    /\ RaisedBy("sku")

====
